---- MODULE Spec2Model ----
(***************************************************************************)
(* Model of src/server/realtime-analysis.py: the RealtimeAnalyzer class    *)
(* (utterance analysis, interruption messages, response tracking).         *)
(*                                                                         *)
(* Representation                                                          *)
(*   - a Python str is a sequence of one-character strings;                *)
(*   - an Optional value is a sequence of length <= 1: None is <<>> and a  *)
(*     value v is <<v>>;                                                   *)
(*   - a dict is a function whose DOMAIN is the set of keys it holds;      *)
(*   - times and durations are whole seconds; the filler ratio is kept as  *)
(*     the exact fraction num/den and compared with a threshold given in   *)
(*     tenths (10*num > tenths*den).  For the word counts of an utterance  *)
(*     the IEEE quotient compares with the literals 0.3, 0.4 and 0.5 the   *)
(*     same way the exact fraction does.                                   *)
(***************************************************************************)
EXTENDS Integers, Sequences, FiniteSets, TLC

VARIABLES
    debater_role,             \* self.debater_role (the configuration dict)
    role_id,                  \* self.role_id
    interruption_threshold,   \* self.interruption_threshold
    filler_word_tolerance,    \* self.filler_word_tolerance (tenths)
    current_response_start,   \* self.current_response_start (Optional instant)
    current_response_text,    \* self.current_response_text
    response_history,         \* self.response_history
    now,                      \* the wall clock read by datetime.now()
    call,                     \* the last call made on the analyzer, with its arguments
    ret,                      \* what that call returned (Optional)
    driver                    \* the caller's view of the utterance in progress

vars == << debater_role, role_id, interruption_threshold, filler_word_tolerance,
           current_response_start, current_response_text, response_history,
           now, call, ret, driver >>

config_vars == << debater_role, role_id, interruption_threshold, filler_word_tolerance >>
tracking_vars == << current_response_start, current_response_text, response_history >>

(***************************************************************************)
(* Bounds of the model.                                                    *)
(***************************************************************************)
MaxTime == 3        \* the clock runs from 0 to MaxTime
MaxHistory == 2     \* utterances finalized in one behaviour

(***************************************************************************)
(* Optional values and dicts.                                              *)
(***************************************************************************)
None == << >>
Some(v) == << v >>
IsNone(o) == o = << >>
Val(o) == o[1]

get(d, k, default) == IF k \in DOMAIN d THEN d[k] ELSE default

Max(a, b) == IF a >= b THEN a ELSE b

(***************************************************************************)
(* Strings: str.lower, str.split, the regular expression \b<literal>\b,    *)
(* and the substring test.                                                 *)
(***************************************************************************)
UpperCase == << "A","B","C","D","E","F","G","H","I","J","K","L","M",
                "N","O","P","Q","R","S","T","U","V","W","X","Y","Z" >>
LowerCase == << "a","b","c","d","e","f","g","h","i","j","k","l","m",
                "n","o","p","q","r","s","t","u","v","w","x","y","z" >>
Digits == { "0","1","2","3","4","5","6","7","8","9" }
Range(f) == { f[i] : i \in DOMAIN f }

LowerOf == [ c \in Range(UpperCase) |->
              LowerCase[CHOOSE i \in DOMAIN UpperCase : UpperCase[i] = c] ]

lower_char(c) == IF c \in DOMAIN LowerOf THEN LowerOf[c] ELSE c

\* s.lower() (written as a concatenation with the empty string, which TLC
\* evaluates to a tuple once instead of once per character read).
lower(s) == [ i \in 1..Len(s) |-> lower_char(s[i]) ] \o << >>

WhiteSpace == { " ", "\t", "\n", "\r", "\f" }
IsSpace(c) == c \in WhiteSpace

\* Variant: len(s), the number of characters, in place of len(s.split()).
split_len_characters(s) == Len(s)

\* len(s.split()): the number of maximal runs of non-whitespace characters.
split_len(s) ==
    Cardinality({ i \in 1..Len(s) :
                    /\ ~IsSpace(s[i])
                    /\ (i = 1 \/ IsSpace(s[i-1])) })

\* \w of the re module, for the characters of the model's texts.
WordChars == Range(UpperCase) \cup Range(LowerCase) \cup Digits \cup { "_" }
IsWordChar(c) == c \in WordChars

\* Is the character at position i of s a word character (FALSE off the ends).
WordAt(s, i) == i >= 1 /\ i <= Len(s) /\ IsWordChar(s[i])

\* \b matches between positions i-1 and i.
Boundary(s, i) == WordAt(s, i-1) # WordAt(s, i)

\* The literal pat (re.escape) occupies positions i .. i+Len(pat)-1 of s.
LiteralAt(pat, s, i) ==
    /\ i + Len(pat) - 1 <= Len(s)
    /\ \A k \in 1..Len(pat) : s[i+k-1] = pat[k]

\* Variant: the literal alone, without the two \b.
MatchAt_anywhere(pat, s, i) == LiteralAt(pat, s, i)

\* \b<pat>\b matches at position i.
MatchAt(pat, s, i) ==
    /\ LiteralAt(pat, s, i)
    /\ Boundary(s, i)
    /\ Boundary(s, i + Len(pat))

\* The positions from i on where \b<pat>\b matches.
MatchesFrom(pat, s, i) == { k \in i..(Len(s) - Len(pat) + 1) : MatchAt(pat, s, k) }

Least(S) == CHOOSE k \in S : \A m \in S : k <= m

\* The number of matches findall keeps among the match positions M, from
\* position i on: the leftmost one, then the search resumes after its last
\* character.
RECURSIVE disjoint_len(_, _, _)
disjoint_len(M, n, i) ==
    LET later == { k \in M : k >= i }
    IN  IF later = {} THEN 0
        ELSE 1 + disjoint_len(later, n, Least(later) + n)

\* len(re.findall(r'\b' + re.escape(pat) + r'\b', s)) scanning from position i.
findall_len(pat, s, i) == disjoint_len(MatchesFrom(pat, s, i), Len(pat), i)

\* pat in s
Contains(s, pat) == \E i \in 1..(Len(s) - Len(pat) + 1) : LiteralAt(pat, s, i)

(***************************************************************************)
(* The word lists of the analyzer.                                         *)
(***************************************************************************)
filler_words ==
  << <<"u","m">>,
     <<"u","h">>,
     <<"l","i","k","e">>,
     <<"y","o","u"," ","k","n","o","w">>,
     <<"b","a","s","i","c","a","l","l","y">>,
     <<"a","c","t","u","a","l","l","y">>,
     <<"l","i","t","e","r","a","l","l","y">>,
     <<"s","o","r","t"," ","o","f">>,
     <<"k","i","n","d"," ","o","f">>,
     <<"r","i","g","h","t">>,
     <<"s","o">>,
     <<"w","e","l","l">>,
     <<"i"," ","m","e","a","n">>,
     <<"i"," ","g","u","e","s","s">>,
     <<"i"," ","t","h","i","n","k">>,
     <<"i"," ","f","e","e","l">>,
     <<"i"," ","b","e","l","i","e","v","e">>,
     <<"m","a","y","b","e">>,
     <<"p","e","r","h","a","p","s">>,
     <<"p","r","o","b","a","b","l","y">> >>

off_topic_indicators ==
  << <<"i"," ","d","o","n","'","t"," ","k","n","o","w">>,
     <<"i","'","m"," ","n","o","t"," ","s","u","r","e">>,
     <<"t","h","a","t","'","s"," ","a"," ","g","o","o","d"," ","q","u","e","s","t","i","o","n">>,
     <<"l","e","t"," ","m","e"," ","t","h","i","n","k">>,
     <<"t","h","a","t","'","s"," ","i","n","t","e","r","e","s","t","i","n","g">>,
     <<"i"," ","h","a","v","e","n","'","t"," ","t","h","o","u","g","h","t"," ","a","b","o","u","t"," ","t","h","a","t">> >>

\* The loop of lines 51-53: the matches of every filler, summed in list order.
RECURSIVE filler_count_from(_, _)
filler_count_from(text_lower, j) ==
    IF j > Len(filler_words) THEN 0
    ELSE findall_len(filler_words[j], text_lower, 1) + filler_count_from(text_lower, j + 1)

filler_count(text_lower) == filler_count_from(text_lower, 1)

(***************************************************************************)
(* Numbers written in the code.                                            *)
(***************************************************************************)
DefaultInterruptionThreshold == 120   \* debater_role.get('interruptionThreshold', 120)
DefaultFillerTolerance == 7           \* debater_role.get('fillerWordTolerance', 0.7), tenths
WordLimit == 100                      \* word_count > 100
ToughFillerTenths == 3                \* filler_ratio > 0.3
FriendlyFillerTenths == 5             \* filler_ratio > 0.5
StandardFillerTenths == 4             \* filler_ratio > 0.4
FriendlyFactorNum == 3                \* self.interruption_threshold * 1.5, as 3/2
FriendlyFactorDen == 2

(***************************************************************************)
(* RealtimeAnalyzer.__init__                                               *)
(***************************************************************************)
init_role_id(role) == get(role, "id", "standard")
\* Variant: a missing threshold defaults by persona (60 tough, 180 friendly).
init_interruption_threshold_by_persona(role) ==
    get(role, "interruptionThreshold",
        IF init_role_id(role) = "tough" THEN 60
        ELSE IF init_role_id(role) = "friendly" THEN 180
        ELSE DefaultInterruptionThreshold)

init_interruption_threshold(role) ==
    get(role, "interruptionThreshold", DefaultInterruptionThreshold)
init_filler_word_tolerance(role) ==
    get(role, "fillerWordTolerance", DefaultFillerTolerance)

(***************************************************************************)
(* RealtimeAnalyzer.analyze_transcript                                     *)
(***************************************************************************)
\* Variant: the division without max(..., 1).
filler_ratio_unguarded(text_lower) ==
    [ num |-> filler_count(text_lower), den |-> split_len(text_lower) ]

\* filler_count / max(len(text_lower.split()), 1), as an exact fraction.
filler_ratio(text_lower) ==
    [ num |-> filler_count(text_lower), den |-> Max(split_len(text_lower), 1) ]

\* Variant: the cut-off itself already interrupts (>= in place of >).
RatioAbove_inclusive(ratio, tenths) == 10 * ratio.num >= tenths * ratio.den

\* ratio > tenths/10
RatioAbove(ratio, tenths) == 10 * ratio.num > tenths * ratio.den

\* Variant: the duration compared with >= instead of >.
is_rambling_inclusive(word_count, duration) ==
    word_count > WordLimit \/ duration >= interruption_threshold

\* word_count > 100 or duration > self.interruption_threshold
is_rambling(word_count, duration) ==
    word_count > WordLimit \/ duration > interruption_threshold

\* any(indicator in text_lower for indicator in off_topic_indicators)
is_off_topic(text_lower) ==
    \E j \in DOMAIN off_topic_indicators : Contains(text_lower, off_topic_indicators[j])

NoInterruption == [ should_interrupt |-> FALSE, interruption_reason |-> "" ]
\* Variant: the reason is set but the flag is left False.
Interrupt_unflagged(reason) == [ should_interrupt |-> FALSE, interruption_reason |-> reason ]

Interrupt(reason) == [ should_interrupt |-> TRUE, interruption_reason |-> reason ]

\* Variant: the filler ratio looked at before the length.
tough_decision_fillers_first(rambling, ratio, off_topic, duration) ==
    IF RatioAbove(ratio, ToughFillerTenths) THEN Interrupt("Too many filler words")
    ELSE IF rambling THEN Interrupt("Response too long")
    ELSE IF off_topic THEN Interrupt("Going off-topic")
    ELSE NoInterruption

\* The branch for role_id == 'tough'.
tough_decision(rambling, ratio, off_topic, duration) ==
    IF rambling THEN Interrupt("Response too long")
    ELSE IF RatioAbove(ratio, ToughFillerTenths) THEN Interrupt("Too many filler words")
    ELSE IF off_topic THEN Interrupt("Going off-topic")
    ELSE NoInterruption

\* Variant: the friendly persona with the filler cut-off of the tough one.
friendly_decision_tough_cutoff(rambling, ratio, off_topic, duration) ==
    IF rambling /\ FriendlyFactorDen * duration > FriendlyFactorNum * interruption_threshold
    THEN Interrupt("Response getting long")
    ELSE IF RatioAbove(ratio, ToughFillerTenths) THEN Interrupt("Many filler words")
    ELSE NoInterruption

\* Variant: the friendly persona without its 1.5 x allowance.
friendly_decision_no_allowance(rambling, ratio, off_topic, duration) ==
    IF rambling THEN Interrupt("Response getting long")
    ELSE IF RatioAbove(ratio, FriendlyFillerTenths) THEN Interrupt("Many filler words")
    ELSE NoInterruption

\* The branch for role_id == 'friendly'.
friendly_decision(rambling, ratio, off_topic, duration) ==
    IF rambling /\ FriendlyFactorDen * duration > FriendlyFactorNum * interruption_threshold
    THEN Interrupt("Response getting long")
    ELSE IF RatioAbove(ratio, FriendlyFillerTenths) THEN Interrupt("Many filler words")
    ELSE NoInterruption

\* Variant: the standard policy with the off-topic test of the tough one.
standard_decision_off_topic(rambling, ratio, off_topic, duration) ==
    IF rambling THEN Interrupt("Response too long")
    ELSE IF RatioAbove(ratio, StandardFillerTenths) THEN Interrupt("Too many filler words")
    ELSE IF off_topic THEN Interrupt("Going off-topic")
    ELSE NoInterruption

\* Variant: the standard policy with the configured tolerance as its cut-off.
standard_decision_configured(rambling, ratio, off_topic, duration) ==
    IF rambling THEN Interrupt("Response too long")
    ELSE IF RatioAbove(ratio, filler_word_tolerance) THEN Interrupt("Too many filler words")
    ELSE NoInterruption

\* The else branch ("Standard debater").
standard_decision(rambling, ratio, off_topic, duration) ==
    IF rambling THEN Interrupt("Response too long")
    ELSE IF RatioAbove(ratio, StandardFillerTenths) THEN Interrupt("Too many filler words")
    ELSE NoInterruption

\* Variant: only 'standard' and 'friendly' are recognised, every other id is
\* treated as the strictest persona.
decision_strict_default(rambling, ratio, off_topic, duration) ==
    IF role_id = "friendly" THEN friendly_decision(rambling, ratio, off_topic, duration)
    ELSE IF role_id = "standard" THEN standard_decision(rambling, ratio, off_topic, duration)
    ELSE tough_decision(rambling, ratio, off_topic, duration)

\* Step 4: the dispatch on self.role_id.
decision(rambling, ratio, off_topic, duration) ==
    IF role_id = "tough" THEN tough_decision(rambling, ratio, off_topic, duration)
    ELSE IF role_id = "friendly" THEN friendly_decision(rambling, ratio, off_topic, duration)
    ELSE standard_decision(rambling, ratio, off_topic, duration)

\* Variant: the text buffered by the session is analyzed when there is one.
analyze_transcript_buffered(transcript, duration) ==
    LET text       == IF current_response_text = << >> THEN transcript
                      ELSE current_response_text
        text_lower == lower(text)
        count      == filler_count(text_lower)
        ratio      == filler_ratio(text_lower)
        word_count == split_len(text)
        rambling   == is_rambling(word_count, duration)
        off_topic  == is_off_topic(text_lower)
        verdict    == decision(rambling, ratio, off_topic, duration)
    IN  [ is_rambling         |-> rambling,
          filler_word_count   |-> count,
          is_off_topic        |-> off_topic,
          response_duration   |-> duration,
          should_interrupt    |-> verdict.should_interrupt,
          interruption_reason |-> verdict.interruption_reason,
          current_topic       |-> "" ]

analyze_transcript(transcript, duration) ==
    LET text_lower == lower(transcript)
        count      == filler_count(text_lower)
        ratio      == filler_ratio(text_lower)
        word_count == split_len(transcript)
        rambling   == is_rambling(word_count, duration)
        off_topic  == is_off_topic(text_lower)
        verdict    == decision(rambling, ratio, off_topic, duration)
    IN  [ is_rambling         |-> rambling,
          filler_word_count   |-> count,
          is_off_topic        |-> off_topic,
          response_duration   |-> duration,
          should_interrupt    |-> verdict.should_interrupt,
          interruption_reason |-> verdict.interruption_reason,
          current_topic       |-> "" ]

(***************************************************************************)
(* RealtimeAnalyzer.get_interruption_message                               *)
(***************************************************************************)
\* Variant: the tough persona has no line of its own for going off-topic.
tough_message_no_off_topic(reason) ==
    IF reason = "Response too long"
    THEN "I need to interrupt. Your response is getting too long. Please be more concise."
    ELSE IF reason = "Too many filler words"
    THEN "I'm interrupting because you're using too many filler words. Speak more directly."
    ELSE "I need to interrupt. Please be more concise."

tough_message(reason) ==
    IF reason = "Response too long"
    THEN "I need to interrupt. Your response is getting too long. Please be more concise."
    ELSE IF reason = "Too many filler words"
    THEN "I'm interrupting because you're using too many filler words. Speak more directly."
    ELSE IF reason = "Going off-topic"
    THEN "You're going off-topic. Let's stay focused on the debate question."
    ELSE "I need to interrupt. Please be more concise."

\* Variant: no line for a reason the friendly persona has no row for.
friendly_message_no_fallback(reason) ==
    IF reason = "Response getting long"
    THEN "I'd like to interject here. Your response is getting quite long."
    ELSE IF reason = "Many filler words"
    THEN "I notice you're using many filler words. Try to speak more directly."
    ELSE ""

friendly_message(reason) ==
    IF reason = "Response getting long"
    THEN "I'd like to interject here. Your response is getting quite long."
    ELSE IF reason = "Many filler words"
    THEN "I notice you're using many filler words. Try to speak more directly."
    ELSE "I'd like to interject here."

standard_message(reason) ==
    IF reason = "Response too long"
    THEN "I need to interrupt. Your response is getting too long."
    ELSE IF reason = "Too many filler words"
    THEN "I'm interrupting because you're using too many filler words."
    ELSE IF reason = "Going off-topic"
    THEN "You're going off-topic. Let's stay focused."
    ELSE "I need to interrupt. Please be more concise."

get_interruption_message(reason) ==
    IF role_id = "tough" THEN tough_message(reason)
    ELSE IF role_id = "friendly" THEN friendly_message(reason)
    ELSE standard_message(reason)

(***************************************************************************)
(* RealtimeAnalyzer.update_response_tracking                               *)
(*                                                                         *)
(* Each branch reads the clock with datetime.now().  The branch that ends  *)
(* an utterance reads it twice (the duration, then the record's timestamp):*)
(* the second reading ts may already be one second later.  The timestamp   *)
(* is kept as the instant itself; isoformat() writes each instant as a     *)
(* different string.                                                       *)
(***************************************************************************)
\* if is_speaking and self.current_response_start is None
start_speaking(transcript) ==
    /\ current_response_start' = Some(now)
    /\ current_response_text' = transcript
    /\ UNCHANGED << response_history, now >>
    /\ ret' = None

\* Variant: every speaking update restarts the utterance's clock.
continue_speaking_restarts(transcript) ==
    /\ current_response_start' = Some(now)
    /\ current_response_text' = transcript
    /\ UNCHANGED << response_history, now >>
    /\ ret' = None

\* Variant: a speaking update returns the analysis of the utterance so far
\* once it has lasted longer than the threshold.
continue_speaking_reports(transcript) ==
    /\ current_response_text' = transcript
    /\ UNCHANGED << current_response_start, response_history, now >>
    /\ ret' = IF now - Val(current_response_start) > interruption_threshold
              THEN Some(analyze_transcript(transcript, now - Val(current_response_start)))
              ELSE None

\* elif is_speaking
continue_speaking(transcript) ==
    /\ current_response_text' = transcript
    /\ UNCHANGED << current_response_start, response_history, now >>
    /\ ret' = None

\* Variant: the transcript of the closing update is analyzed and stored
\* instead of the buffered one.
stop_speaking_uses_argument(transcript) ==
    \E ts \in { now, now + 1 } :
        LET duration == now - Val(current_response_start)
            analysis == analyze_transcript(transcript, duration)
        IN  /\ ts <= MaxTime
            /\ response_history' = Append(response_history,
                                          [ text      |-> transcript,
                                            duration  |-> duration,
                                            analysis  |-> analysis,
                                            timestamp |-> ts ])
            /\ current_response_start' = None
            /\ current_response_text' = << >>
            /\ now' = ts
            /\ ret' = Some(analysis)

\* Variant: the start of the utterance is not cleared.
stop_speaking_keeps_start(transcript) ==
    \E ts \in { now, now + 1 } :
        LET duration == now - Val(current_response_start)
            analysis == analyze_transcript(current_response_text, duration)
        IN  /\ ts <= MaxTime
            /\ response_history' = Append(response_history,
                                          [ text      |-> current_response_text,
                                            duration  |-> duration,
                                            analysis  |-> analysis,
                                            timestamp |-> ts ])
            /\ current_response_text' = << >>
            /\ UNCHANGED current_response_start
            /\ now' = ts
            /\ ret' = Some(analysis)

\* Variant: the buffered text is not cleared.
stop_speaking_keeps_text(transcript) ==
    \E ts \in { now, now + 1 } :
        LET duration == now - Val(current_response_start)
            analysis == analyze_transcript(current_response_text, duration)
        IN  /\ ts <= MaxTime
            /\ response_history' = Append(response_history,
                                          [ text      |-> current_response_text,
                                            duration  |-> duration,
                                            analysis  |-> analysis,
                                            timestamp |-> ts ])
            /\ current_response_start' = None
            /\ UNCHANGED current_response_text
            /\ now' = ts
            /\ ret' = Some(analysis)

\* Variant: the newest record is put first.
stop_speaking_prepends(transcript) ==
    \E ts \in { now, now + 1 } :
        LET duration == now - Val(current_response_start)
            analysis == analyze_transcript(current_response_text, duration)
        IN  /\ ts <= MaxTime
            /\ response_history' = << [ text      |-> current_response_text,
                                        duration  |-> duration,
                                        analysis  |-> analysis,
                                        timestamp |-> ts ] >> \o response_history
            /\ current_response_start' = None
            /\ current_response_text' = << >>
            /\ now' = ts
            /\ ret' = Some(analysis)

\* Variant: the utterance is analyzed and cleared but no record is stored.
stop_speaking_drops_record(transcript) ==
    \E ts \in { now, now + 1 } :
        LET duration == now - Val(current_response_start)
            analysis == analyze_transcript(current_response_text, duration)
        IN  /\ ts <= MaxTime
            /\ UNCHANGED response_history
            /\ current_response_start' = None
            /\ current_response_text' = << >>
            /\ now' = ts
            /\ ret' = Some(analysis)

\* elif not is_speaking and self.current_response_start is not None
stop_speaking(transcript) ==
    \E ts \in { now, now + 1 } :
        LET duration == now - Val(current_response_start)
            analysis == analyze_transcript(current_response_text, duration)
        IN  /\ ts <= MaxTime
            /\ response_history' = Append(response_history,
                                          [ text      |-> current_response_text,
                                            duration  |-> duration,
                                            analysis  |-> analysis,
                                            timestamp |-> ts ])
            /\ current_response_start' = None
            /\ current_response_text' = << >>
            /\ now' = ts
            /\ ret' = Some(analysis)

\* Variant: a not-speaking update outside an utterance returns the analysis
\* of the previous utterance again.
not_tracking_repeats(transcript) ==
    /\ UNCHANGED << tracking_vars, now >>
    /\ ret' = IF response_history = << >> THEN None
              ELSE Some(response_history[Len(response_history)].analysis)

\* no branch taken: return None
not_tracking(transcript) ==
    /\ UNCHANGED << tracking_vars, now >>
    /\ ret' = None

update_response_tracking(transcript, is_speaking) ==
    IF is_speaking /\ IsNone(current_response_start) THEN start_speaking(transcript)
    ELSE IF is_speaking THEN continue_speaking(transcript)
    ELSE IF ~is_speaking /\ ~IsNone(current_response_start) THEN stop_speaking(transcript)
    ELSE not_tracking(transcript)

(***************************************************************************)
(* Inputs.                                                                 *)
(***************************************************************************)
EmptyDict == << >>

\* The roles of test_analyzer, and roles that leave keys out, name other
\* personas or set a threshold the session clock can pass.
Roles ==
    { [ id |-> "tough",    interruptionThreshold |-> 60,  fillerWordTolerance |-> 3 ],
      [ id |-> "friendly", interruptionThreshold |-> 180, fillerWordTolerance |-> 7 ],
      [ id |-> "standard", interruptionThreshold |-> 120, fillerWordTolerance |-> 5 ],
      EmptyDict,
      [ id |-> "tough" ],
      [ id |-> "friendly" ],
      [ id |-> "executive" ],
      [ id |-> "tough",     interruptionThreshold |-> 2 ],
      [ id |-> "friendly",  interruptionThreshold |-> 2 ],
      [ id |-> "standard",  interruptionThreshold |-> 2 ],
      [ id |-> "technical", interruptionThreshold |-> 2 ],
      [ id |-> "mentor",    interruptionThreshold |-> 2, fillerWordTolerance |-> 3 ],
      [ id |-> "mentor",    interruptionThreshold |-> 2, fillerWordTolerance |-> 7 ] }

TxtEmpty == << >>
TxtHello == <<"h","e","l","l","o">>
TxtHelloWorld == <<"h","e","l","l","o"," ","w","o","r","l","d">>
TxtUmSo == <<"U","m"," ","s","o">>
TxtUmHelloWorld == <<"u","m"," ","h","e","l","l","o"," ","w","o","r","l","d">>
TxtUmSoInteresting ==
    <<"u","m"," ","s","o"," ","t","h","a","t","'","s"," ","i","n","t","e","r","e","s","t","i","n","g">>
TxtDontKnow == <<"I"," ","d","o","n","'","t"," ","k","n","o","w">>

TxtBlank == << " ", "\t" >>
TxtUmSoWellHelloWorld ==
    << "u","m"," ","s","o"," ","w","e","l","l"," ","h","e","l","l","o"," ","w",
       "o","r","l","d" >>

\* "I don't really know how to answer that question. That's a good question."
TxtHedging ==
    << "I"," ","d","o","n","'","t"," ","r","e","a","l","l","y"," ","k","n","o",
       "w"," ","h","o","w"," ","t","o"," ","a","n","s","w","e","r"," ","t","h",
       "a","t"," ","q","u","e","s","t","i","o","n","."," ","T","h","a","t","'",
       "s"," ","a"," ","g","o","o","d"," ","q","u","e","s","t","i","o","n","." >>

\* test_responses[0] of test_analyzer.
TxtSampleMonologue ==
    << "U","m",","," ","l","i","k","e",","," ","y","o","u"," ","k","n","o","w",
       ","," ","I"," ","t","h","i","n","k"," ","t","h","a","t",","," ","u","m",
       ","," ","b","a","s","i","c","a","l","l","y"," ","w","h","a","t"," ","h",
       "a","p","p","e","n","e","d"," ","w","a","s",","," ","l","i","k","e",",",
       " ","y","o","u"," ","k","n","o","w",","," ","I"," ","m","e","a","n",",",
       " ","i","t"," ","w","a","s"," ","s","o","r","t"," ","o","f",","," ","u",
       "m",","," ","y","o","u"," ","k","n","o","w",","," ","a"," ","s","i","t",
       "u","a","t","i","o","n"," ","w","h","e","r","e",","," ","l","i","k","e",
       ","," ","I"," ","h","a","d"," ","t","o",","," ","u","m",","," ","y","o",
       "u"," ","k","n","o","w",","," ","d","e","a","l"," ","w","i","t","h",",",
       " ","l","i","k","e",","," ","t","h","i","s"," ","p","r","o","b","l","e",
       "m",","," ","a","n","d",","," ","u","m",","," ","y","o","u"," ","k","n",
       "o","w",","," ","i","t"," ","w","a","s",","," ","l","i","k","e",","," ",
       "r","e","a","l","l","y"," ","c","h","a","l","l","e","n","g","i","n","g",
       ","," ","a","n","d",","," ","u","m",","," ","y","o","u"," ","k","n","o",
       "w",","," ","I"," ","h","a","d"," ","t","o",","," ","l","i","k","e",",",
       " ","t","h","i","n","k"," ","a","b","o","u","t"," ","i","t",","," ","a",
       "n","d",","," ","u","m",","," ","y","o","u"," ","k","n","o","w",","," ",
       "b","a","s","i","c","a","l","l","y",","," ","u","m",","," ","y","o","u",
       " ","k","n","o","w",","," ","I"," ","c","a","m","e"," ","u","p"," ","w",
       "i","t","h",","," ","l","i","k","e",","," ","a"," ","s","o","l","u","t",
       "i","o","n",","," ","a","n","d",","," ","u","m",","," ","y","o","u"," ",
       "k","n","o","w",","," ","i","t"," ","w","o","r","k","e","d"," ","o","u",
       "t",","," ","u","m",","," ","y","o","u"," ","k","n","o","w",","," ","p",
       "r","e","t","t","y"," ","w","e","l","l",","," ","I"," ","t","h","i","n",
       "k",","," ","u","m",","," ","y","o","u"," ","k","n","o","w",","," ","i",
       "n"," ","t","h","e"," ","e","n","d","." >>

\* "Dislike it, LIKE You Know, unlikely"
TxtDislike ==
    << "D","i","s","l","i","k","e"," ","i","t",","," ","L","I","K","E"," ","Y",
       "o","u"," ","K","n","o","w",","," ","u","n","l","i","k","e","l","y" >>

\* n words "a", separated by single spaces.
Words(n) == [ i \in 1..(2 * n - 1) |-> IF i % 2 = 1 THEN "a" ELSE " " ]

\* The text w repeated n times.
RECURSIVE Repeat(_, _)
Repeat(w, n) == IF n = 0 THEN << >> ELSE w \o Repeat(w, n - 1)

\* n words separated by single spaces, the first f of them "um", the
\* others "a" (f < n).
FillerMix(f, n) == Repeat(<< "u", "m", " " >>, f) \o Words(n - f)

\* Transcripts given to analyze_transcript directly.
Texts ==
    { TxtEmpty, TxtHello, TxtHelloWorld, TxtUmSo, TxtUmHelloWorld,
      TxtUmSoInteresting, TxtDontKnow, Words(WordLimit), Words(WordLimit + 1),
      TxtBlank, TxtUmSoWellHelloWorld, TxtHedging, TxtSampleMonologue,
      TxtDislike, FillerMix(3, 10), FillerMix(4, 10), FillerMix(5, 10),
      Words(40) }

\* Durations given to analyze_transcript directly (seconds).
Durations ==
    { -1, 0, 1, 2, 3, 4, 20, 30, 60, 61, 90, 91, 120, 121, 180, 181, 270, 271 }

\* Reasons given to get_interruption_message.
Reasons ==
    { "", "Response too long", "Too many filler words", "Going off-topic",
      "Response getting long", "Many filler words", "Speaking too fast" }

\* Transcripts the speech-to-text driver delivers.
SessionTexts == { TxtEmpty, TxtHelloWorld, TxtUmSo }

\* Roles of the live sessions.
SessionRoles ==
    { EmptyDict,
      [ id |-> "tough",    interruptionThreshold |-> 2 ],
      [ id |-> "friendly", interruptionThreshold |-> 1 ],
      [ id |-> "standard", interruptionThreshold |-> 2 ] }

(***************************************************************************)
(* State machine.                                                          *)
(***************************************************************************)
\* RealtimeAnalyzer(role) at time 0: the fields __init__ sets, and a
\* driver that has delivered nothing yet.
Construct(role) ==
    /\ debater_role = role
    /\ role_id = init_role_id(role)
    /\ interruption_threshold = init_interruption_threshold(role)
    /\ filler_word_tolerance = init_filler_word_tolerance(role)
    /\ current_response_start = None
    /\ current_response_text = << >>
    /\ response_history = << >>
    /\ now = 0
    /\ call = [ op |-> "__init__" ]
    /\ ret = None
    /\ driver = [ is_speaking |-> FALSE, first |-> None, text |-> << >> ]

Init == \E role \in SessionRoles : Construct(role)

InitAnalyze == \E role \in Roles : Construct(role)

\* What the driver knows after delivering update(transcript, is_speaking):
\* whether the user is speaking, when the utterance in progress began (its
\* first speaking update) and the transcript of its latest speaking update.
driver_after(transcript, is_speaking) ==
    IF is_speaking
    THEN [ is_speaking |-> TRUE,
           first       |-> IF driver.is_speaking THEN driver.first ELSE Some(now),
           text        |-> transcript ]
    ELSE [ is_speaking |-> FALSE, first |-> None, text |-> << >> ]

\* The driver delivers one transcript event.
Update(transcript, is_speaking) ==
    /\ (is_speaking /\ IsNone(current_response_start)
            => Len(response_history) < MaxHistory)
    /\ update_response_tracking(transcript, is_speaking)
    /\ call' = [ op |-> "update_response_tracking",
                 transcript |-> transcript, is_speaking |-> is_speaking ]
    /\ driver' = driver_after(transcript, is_speaking)
    /\ UNCHANGED config_vars

\* Variant: analyze_transcript keeps the transcript in the session's buffer.
Analyze_buffers(transcript, duration) ==
    /\ call.op # "analyze_transcript"
    /\ ret' = Some(analyze_transcript(transcript, duration))
    /\ call' = [ op |-> "analyze_transcript",
                 transcript |-> transcript, duration |-> duration ]
    /\ current_response_text' = transcript
    /\ UNCHANGED << config_vars, current_response_start, response_history, now, driver >>

\* A direct call of analyze_transcript.  As in test_analyzer, the caller
\* analyzes a response after constructing the analyzer or after fetching a
\* message, never twice in a row.
Analyze(transcript, duration) ==
    /\ call.op # "analyze_transcript"
    /\ ret' = Some(analyze_transcript(transcript, duration))
    /\ call' = [ op |-> "analyze_transcript",
                 transcript |-> transcript, duration |-> duration ]
    /\ UNCHANGED << config_vars, tracking_vars, now, driver >>

\* A direct call of get_interruption_message.
Message(reason) ==
    /\ ret' = Some(get_interruption_message(reason))
    /\ call' = [ op |-> "get_interruption_message", reason |-> reason ]
    /\ UNCHANGED << config_vars, tracking_vars, now, driver >>

\* One second passes between two calls.
Tick ==
    /\ now < MaxTime
    /\ now' = now + 1
    /\ call' = [ op |-> "tick" ]
    /\ ret' = None
    /\ UNCHANGED << config_vars, tracking_vars, driver >>

\* The live session: transcript events and the passing of time.
Next ==
    \/ \E transcript \in SessionTexts, is_speaking \in BOOLEAN :
          Update(transcript, is_speaking)
    \/ Tick

Spec == Init /\ [][Next]_vars

\* A live session whose owner also calls analyze_transcript and
\* get_interruption_message between transcript events; the driver delivers
\* empty and whitespace-only transcripts too.
MaxMixedHistory == 1     \* utterances started in one behaviour of SpecMixed

MixedTexts == { TxtEmpty, TxtBlank, TxtUmSo }
MixedDurations == { 0, 3 }
MixedReasons == { "", "Too many filler words" }

UpdateMixed(transcript, is_speaking) ==
    /\ (is_speaking /\ IsNone(current_response_start)
            => Len(response_history) < MaxMixedHistory)
    /\ Update(transcript, is_speaking)

NextMixed ==
    \/ \E transcript \in MixedTexts, is_speaking \in BOOLEAN :
          UpdateMixed(transcript, is_speaking)
    \/ Tick
    \/ \E transcript \in MixedTexts, duration \in MixedDurations :
          Analyze(transcript, duration)
    \/ \E reason \in MixedReasons : Message(reason)

SpecMixed == Init /\ [][NextMixed]_vars

(***************************************************************************)
(* The live session with a driver that delivers a not-speaking update      *)
(* after the speaking updates of an utterance.                             *)
(***************************************************************************)
MaxLiveHistory == 1     \* utterances started in one behaviour of SpecLive

LiveTexts == { TxtEmpty, TxtUmSo }

UpdateLive(transcript, is_speaking) ==
    /\ (is_speaking /\ IsNone(current_response_start)
            => Len(response_history) < MaxLiveHistory)
    /\ Update(transcript, is_speaking)

\* The driver ends the utterance in progress.
Finalize ==
    /\ ~IsNone(current_response_start)
    /\ \E transcript \in LiveTexts : UpdateLive(transcript, FALSE)

NextLive ==
    \/ \E transcript \in LiveTexts, is_speaking \in BOOLEAN :
          UpdateLive(transcript, is_speaking)
    \/ Tick

SpecLive == Init /\ [][NextLive]_vars /\ WF_vars(Finalize)

\* The analyzer called directly on an utterance, and asked for messages.
NextAnalyze ==
    \/ \E transcript \in Texts, duration \in Durations : Analyze(transcript, duration)
    \/ \E reason \in Reasons : Message(reason)

SpecAnalyze == InitAnalyze /\ [][NextAnalyze]_vars

(***************************************************************************)
(* Properties of analyze_transcript and get_interruption_message           *)
(* (checked under SpecAnalyze).                                            *)
(***************************************************************************)
Analyzed == call.op = "analyze_transcript"
Result == Val(ret)

\* The filler ratio of the analyzed transcript exceeds tenths/10, from the
\* reported filler count and the number of words of the transcript.
ReportedRatioAbove(tenths) ==
    10 * Result.filler_word_count > tenths * Max(split_len(call.transcript), 1)

Interrupts(reason) ==
    Result.should_interrupt /\ Result.interruption_reason = reason
DoesNotInterrupt ==
    ~Result.should_interrupt /\ Result.interruption_reason = ""

\* C1: for persona tough the verdict is that of the first condition that
\* holds, in the order rambling, filler ratio above 0.3, off-topic; with none
\* of them there is no interruption and no reason.
C1_ToughPriority ==
    (Analyzed /\ role_id = "tough") =>
        IF Result.is_rambling THEN Interrupts("Response too long")
        ELSE IF ReportedRatioAbove(3) THEN Interrupts("Too many filler words")
        ELSE IF Result.is_off_topic THEN Interrupts("Going off-topic")
        ELSE DoesNotInterrupt

\* A tough analysis in which all three conditions hold and the reason is the
\* length.
C1_Witness ==
    /\ Analyzed /\ role_id = "tough"
    /\ Result.is_rambling /\ ReportedRatioAbove(3) /\ Result.is_off_topic
    /\ Interrupts("Response too long")

\* C2: for persona friendly the length interrupts only when the utterance is
\* rambling and lasted more than 1.5 x the threshold; otherwise a filler
\* ratio above 0.5 interrupts; otherwise nothing does.
C2_FriendlyPolicy ==
    (Analyzed /\ role_id = "friendly") =>
        IF Result.is_rambling /\ 2 * call.duration > 3 * interruption_threshold
        THEN Interrupts("Response getting long")
        ELSE IF ReportedRatioAbove(5) THEN Interrupts("Many filler words")
        ELSE DoesNotInterrupt

\* A friendly analysis of a rambling utterance that lasted longer than the
\* threshold but not longer than 1.5 x it, and is not interrupted.
C2_Witness ==
    /\ Analyzed /\ role_id = "friendly"
    /\ Result.is_rambling
    /\ call.duration > interruption_threshold
    /\ 2 * call.duration <= 3 * interruption_threshold
    /\ DoesNotInterrupt

\* The message of the standard policy for a reason.
StandardLine(reason) ==
    CASE reason = "Response too long" ->
             "I need to interrupt. Your response is getting too long."
      [] reason = "Too many filler words" ->
             "I'm interrupting because you're using too many filler words."
      [] reason = "Going off-topic" ->
             "You're going off-topic. Let's stay focused."
      [] OTHER -> "I need to interrupt. Please be more concise."

\* C3: every persona id other than tough and friendly gets the standard
\* policy: rambling interrupts for length, else a filler ratio above 0.4
\* interrupts, else nothing does; its messages are the standard ones; and
\* each call returns a value.
C3_OtherIdsAreStandard ==
    (role_id \notin { "tough", "friendly" }) =>
        /\ Analyzed =>
              /\ ret # None
              /\ IF Result.is_rambling THEN Interrupts("Response too long")
                 ELSE IF ReportedRatioAbove(4) THEN Interrupts("Too many filler words")
                 ELSE DoesNotInterrupt
        /\ call.op = "get_interruption_message" =>
              /\ ret # None
              /\ Val(ret) = StandardLine(call.reason)

\* An id the code does not know, analyzing a short off-topic utterance
\* with few fillers: no interruption.
C3_Witness ==
    /\ Analyzed /\ role_id = "mentor"
    /\ Result.is_off_topic /\ ~Result.is_rambling /\ ~ReportedRatioAbove(4)
    /\ DoesNotInterrupt

\* C4: is_rambling is (word_count > 100) or (duration > threshold), both
\* comparisons strict.
C4_RamblingStrict ==
    Analyzed =>
        (Result.is_rambling <=>
            (split_len(call.transcript) > 100 \/ call.duration > interruption_threshold))

\* Exactly 100 words lasting exactly the threshold: not rambling.
C4_Witness ==
    /\ Analyzed
    /\ split_len(call.transcript) = 100
    /\ call.duration = interruption_threshold
    /\ ~Result.is_rambling

\* C11 as stated: empty text is never rambling, has no fillers and is never
\* interrupted, for every persona and every duration >= 0.
C11_EmptyNeverFlagged ==
    (Analyzed /\ call.transcript = TxtEmpty /\ call.duration >= 0) =>
        /\ ~Result.is_rambling
        /\ Result.filler_word_count = 0
        /\ ~Result.should_interrupt

\* C11, amended: empty text analyzed with a duration from 0 up to the
\* interruption threshold is not rambling, has no fillers and is not
\* interrupted, for every persona.
C11_EmptyWithinThreshold ==
    (Analyzed /\ call.transcript = TxtEmpty
              /\ call.duration >= 0 /\ call.duration <= interruption_threshold) =>
        /\ ~Result.is_rambling
        /\ Result.filler_word_count = 0
        /\ ~Result.should_interrupt
        /\ Result.interruption_reason = ""

\* Empty text that lasted exactly the threshold.
C11_Witness ==
    /\ Analyzed /\ call.transcript = TxtEmpty
    /\ call.duration = interruption_threshold
    /\ ~Result.is_rambling /\ ~Result.should_interrupt

\* C12 as stated: a duration of zero or less is treated as 0: the reported
\* response_duration is 0, and the utterance can be rambling only by its
\* number of words.
C12_NonPositiveDurationIsZero ==
    (Analyzed /\ call.duration <= 0) =>
        /\ Result.response_duration = 0
        /\ (Result.is_rambling => split_len(call.transcript) > 100)

\* The sample monologue analyzed at 30 s by persona tough with threshold 60.
SampleCall ==
    /\ Analyzed
    /\ call.transcript = TxtSampleMonologue /\ call.duration = 30
    /\ role_id = "tough" /\ interruption_threshold = 60

\* C13 as stated: the sample monologue, 30 s, persona tough with threshold
\* 60: more than 100 words, rambling, interrupted for its length.
C13_SampleTooLong ==
    SampleCall =>
        /\ split_len(call.transcript) > 100
        /\ Result.is_rambling
        /\ Interrupts("Response too long")

\* C13, amended: the sample monologue has 94 words, 36 of them fillers; at
\* 30 s under persona tough with threshold 60 it is not rambling and is
\* interrupted for its fillers.
C13_SampleTooManyFillers ==
    SampleCall =>
        /\ split_len(call.transcript) = 94
        /\ Result.filler_word_count = 36
        /\ ~Result.is_rambling
        /\ Interrupts("Too many filler words")

C13_Witness ==
    SampleCall /\ Result.should_interrupt /\ ~Result.is_rambling

\* C14: only persona tough interrupts for going off-topic: a short
\* utterance with few fillers that holds a hedging phrase is interrupted as
\* off-topic by tough and not interrupted by any other persona, and
\* is_off_topic is reported for every persona.
C14_OffTopicOnlyTough ==
    Analyzed =>
        /\ Result.is_off_topic <=>
              \E j \in DOMAIN off_topic_indicators :
                  Contains(lower(call.transcript), off_topic_indicators[j])
        /\ Result.interruption_reason = "Going off-topic" => role_id = "tough"
        /\ (Result.is_off_topic /\ ~Result.is_rambling /\ ~ReportedRatioAbove(3)) =>
              IF role_id = "tough" THEN Interrupts("Going off-topic")
              ELSE DoesNotInterrupt

\* Scenario C: the hedging answer, 30 s, persona friendly: reported
\* off-topic, not interrupted.
C14_Witness ==
    /\ Analyzed /\ role_id = "friendly"
    /\ call.transcript = TxtHedging /\ call.duration = 30
    /\ Result.is_off_topic /\ DoesNotInterrupt

\* The three policies applied to the analyzed utterance (same text, duration
\* and threshold).
PolicyInput ==
    [ rambling  |-> is_rambling(split_len(call.transcript), call.duration),
      ratio     |-> filler_ratio(lower(call.transcript)),
      off_topic |-> is_off_topic(lower(call.transcript)) ]
ToughInterrupts ==
    tough_decision(PolicyInput.rambling, PolicyInput.ratio,
                   PolicyInput.off_topic, call.duration).should_interrupt
StandardInterrupts ==
    standard_decision(PolicyInput.rambling, PolicyInput.ratio,
                      PolicyInput.off_topic, call.duration).should_interrupt
FriendlyInterrupts ==
    friendly_decision(PolicyInput.rambling, PolicyInput.ratio,
                      PolicyInput.off_topic, call.duration).should_interrupt

\* C15: on the same input, friendly interrupting implies standard
\* interrupting, which implies tough interrupting; for an utterance that is
\* neither rambling nor off-topic the policies interrupt exactly above the
\* filler ratios 0.5 (friendly), 0.4 (standard) and 0.3 (tough).
C15_StrictnessOrder ==
    Analyzed =>
        /\ FriendlyInterrupts => StandardInterrupts
        /\ StandardInterrupts => ToughInterrupts
        /\ (~PolicyInput.rambling /\ ~PolicyInput.off_topic) =>
              /\ FriendlyInterrupts <=> ReportedRatioAbove(5)
              /\ StandardInterrupts <=> ReportedRatioAbove(4)
              /\ ToughInterrupts <=> ReportedRatioAbove(3)

\* An utterance with a third of its words fillers: tough interrupts, the
\* standard and friendly policies do not.
C15_Witness ==
    /\ Analyzed /\ call.transcript = TxtUmHelloWorld
    /\ ToughInterrupts /\ ~StandardInterrupts /\ ~FriendlyInterrupts

\* The reasons a persona has a line of its own for.
DedicatedReasons ==
    IF role_id = "friendly"
    THEN { "Response getting long", "Many filler words" }
    ELSE { "Response too long", "Too many filler words", "Going off-topic" }

\* The line a persona falls back to.
FallbackLine ==
    IF role_id = "friendly" THEN "I'd like to interject here."
    ELSE "I need to interrupt. Please be more concise."

\* C16: get_interruption_message returns a non-empty line for every persona
\* id and every reason; a reason the persona has no line for gets the
\* persona's fallback line, and a reason it has a line for gets another one.
C16_MessageTotal ==
    call.op = "get_interruption_message" =>
        /\ ret # None
        /\ Val(ret) # ""
        /\ call.reason \notin DedicatedReasons => Val(ret) = FallbackLine
        /\ call.reason \in DedicatedReasons => Val(ret) # FallbackLine

\* The friendly persona asked for a reason only other personas produce.
C16_Witness ==
    /\ call.op = "get_interruption_message"
    /\ role_id = "friendly" /\ call.reason = "Response too long"
    /\ Val(ret) = "I'd like to interject here."

(***************************************************************************)
(* Properties of update_response_tracking (checked under Spec).            *)
(***************************************************************************)
\* The step is a call update_response_tracking(_, is_speaking).
UpdateStep(is_speaking) ==
    /\ call'.op = "update_response_tracking"
    /\ call'.is_speaking = is_speaking

Speaking == ~IsNone(current_response_start)
LastRecord(h) == h[Len(h)]
IsPrefix(h, g) == Len(h) <= Len(g) /\ SubSeq(g, 1, Len(h)) = h

\* C5: a not-speaking update during an utterance appends one record holding
\* the buffered text, the time since the start, the analysis of that text
\* with that duration and a timestamp; it clears the buffer and the start
\* and returns that analysis.
C5_StopFinalizes ==
    [][ (UpdateStep(FALSE) /\ Speaking) =>
          LET duration == now - Val(current_response_start)
              analysis == analyze_transcript(current_response_text, duration)
              record   == LastRecord(response_history')
          IN  /\ Len(response_history') = Len(response_history) + 1
              /\ IsPrefix(response_history, response_history')
              /\ DOMAIN record = { "text", "duration", "analysis", "timestamp" }
              /\ record.text = current_response_text
              /\ record.duration = duration
              /\ record.analysis = analysis
              /\ record.timestamp >= now
              /\ current_response_text' = << >>
              /\ current_response_start' = None
              /\ ret' = Some(analysis)
      ]_vars

\* A not-speaking update has just closed an utterance of some words that
\* lasted some time, and its analysis was returned.
C5_Witness ==
    /\ call.op = "update_response_tracking" /\ ~call.is_speaking
    /\ ret # None
    /\ response_history # << >>
    /\ LastRecord(response_history).text = TxtHelloWorld
    /\ LastRecord(response_history).duration = 2
    /\ call.transcript # TxtHelloWorld
    /\ ~Speaking

\* C6: a not-speaking update outside an utterance returns nothing and leaves
\* the buffer, the start and the history as they were.
C6_StopWhenIdleIsNoOp ==
    [][ (UpdateStep(FALSE) /\ ~Speaking) =>
          /\ ret' = None
          /\ UNCHANGED tracking_vars
      ]_vars

\* A not-speaking update that returned nothing, after an utterance was
\* recorded: the history still holds that one record.
C6_Witness ==
    /\ call.op = "update_response_tracking" /\ ~call.is_speaking
    /\ ret = None
    /\ Len(response_history) = 1
    /\ ~Speaking /\ current_response_text = << >>

\* C7: a speaking update overwrites the buffer with its transcript, leaves
\* the history alone, and sets the start to the current time only when no
\* utterance was in progress: the start stays that of the utterance's first
\* speaking update.
C7_SpeakingOverwrites ==
    [][ UpdateStep(TRUE) =>
          /\ current_response_text' = call'.transcript
          /\ response_history' = response_history
          /\ (~Speaking => current_response_start' = Some(now))
          /\ (Speaking => current_response_start' = current_response_start)
          /\ current_response_start' = driver'.first
      ]_vars

\* A later speaking update of an utterance: the buffer holds its transcript
\* and the start is still the earlier time.
C7_Witness ==
    /\ call.op = "update_response_tracking" /\ call.is_speaking
    /\ Speaking /\ Val(current_response_start) < now
    /\ current_response_text = TxtHelloWorld
    /\ current_response_text = call.transcript

\* C8: the history grows by one record exactly when a not-speaking update
\* closes an utterance of at least one speaking update, and by none in any
\* other step; that record has the transcript of the utterance's last
\* speaking update and the time from its first speaking update to the
\* closing update.
C8_OneRecordPerUtterance ==
    [][ IF UpdateStep(FALSE) /\ driver.first # None
        THEN /\ Len(response_history') = Len(response_history) + 1
             /\ LastRecord(response_history').text = driver.text
             /\ LastRecord(response_history').duration = now - Val(driver.first)
        ELSE Len(response_history') = Len(response_history)
      ]_vars

\* Two utterances recorded, the second with another text and shorter than
\* the time since the first one began.
C8_Witness ==
    /\ Len(response_history) = 2
    /\ response_history[1].text = TxtUmSo
    /\ response_history[2].text = TxtHelloWorld
    /\ response_history[1].duration = 1
    /\ response_history[2].duration = 1
    /\ now = 3

\* C9: the start is none exactly when the user is not speaking and the
\* buffer is empty.
C9_StartNoneIffIdle ==
    IsNone(current_response_start)
        <=> (~driver.is_speaking /\ current_response_text = << >>)

\* An utterance in progress whose transcript is still empty: the start is
\* set.
C9_Witness ==
    /\ driver.is_speaking
    /\ current_response_text = << >>
    /\ ~IsNone(current_response_start)
    /\ response_history # << >>

\* C10: the history only grows at its end: every step keeps the records it
\* held, each at its position, and a step that adds a record puts the
\* utterance the driver has just closed last.
C10_HistoryAppendOnly ==
    [][ /\ IsPrefix(response_history, response_history')
        /\ response_history' # response_history =>
              /\ LastRecord(response_history').text = driver.text
              /\ LastRecord(response_history').duration = now - Val(driver.first)
      ]_vars

\* Two different records, the one finalized first still first.
C10_Witness ==
    /\ Len(response_history) = 2
    /\ response_history[1].timestamp < response_history[2].timestamp
    /\ response_history[1].text # response_history[2].text

(***************************************************************************)
(* Properties of the analyzer inside a session (checked under SpecMixed),  *)
(* and what a result depends on.                                           *)
(***************************************************************************)
\* The filler ratio of the text has a denominator of at least 1, and a text
\* of no words has ratio 0/1, no fillers and no interruption for fillers.
NoWordsHandled(transcript, result) ==
    /\ filler_ratio(lower(transcript)).den >= 1
    /\ split_len(transcript) = 0 =>
          /\ filler_ratio(lower(transcript)) = [ num |-> 0, den |-> 1 ]
          /\ result.filler_word_count = 0
          /\ result.interruption_reason
                \notin { "Too many filler words", "Many filler words" }

\* C17: no call fails: in every state update_response_tracking can be
\* carried out for every transcript and flag; the filler ratio is always
\* taken over a denominator of at least 1; and a text of no words, analyzed
\* directly or at the end of an utterance, has denominator 1, no fillers and
\* no interruption for fillers.
C17_NeverFails ==
    /\ \A transcript \in MixedTexts, is_speaking \in BOOLEAN :
          ENABLED update_response_tracking(transcript, is_speaking)
    /\ Analyzed => ret # None /\ NoWordsHandled(call.transcript, Result)
    /\ (call.op = "update_response_tracking" /\ ret # None) =>
          NoWordsHandled(LastRecord(response_history).text, Result)

\* An utterance of whitespace alone has been finalized.
C17_Witness ==
    /\ call.op = "update_response_tracking" /\ ~call.is_speaking
    /\ ret # None
    /\ LastRecord(response_history).text = TxtBlank
    /\ Result.filler_word_count = 0

\* The verdict for a persona id, from the facts about one utterance.
ReferenceReason(id, rambling, beyond_allowance, fillers, words, off_topic) ==
    IF id = "tough"
    THEN IF rambling THEN "Response too long"
         ELSE IF 10 * fillers > 3 * Max(words, 1) THEN "Too many filler words"
         ELSE IF off_topic THEN "Going off-topic"
         ELSE ""
    ELSE IF id = "friendly"
    THEN IF rambling /\ beyond_allowance THEN "Response getting long"
         ELSE IF 10 * fillers > 5 * Max(words, 1) THEN "Many filler words"
         ELSE ""
    ELSE IF rambling THEN "Response too long"
         ELSE IF 10 * fillers > 4 * Max(words, 1) THEN "Too many filler words"
         ELSE ""

\* The AnalysisResult as a function of the persona id, the interruption
\* threshold, the text and the duration, and of nothing else.
ReferenceAnalysis(id, threshold, transcript, duration) ==
    LET words    == split_len(transcript)
        fillers  == filler_count(lower(transcript))
        rambling == words > 100 \/ duration > threshold
        hedging  == is_off_topic(lower(transcript))
        reason   == ReferenceReason(id, rambling, 2 * duration > 3 * threshold,
                                    fillers, words, hedging)
    IN  [ is_rambling         |-> rambling,
          filler_word_count   |-> fillers,
          is_off_topic        |-> hedging,
          response_duration   |-> duration,
          should_interrupt    |-> reason # "",
          interruption_reason |-> reason,
          current_topic       |-> "" ]

\* C18: whatever the buffer, the start, the history and the clock hold and
\* whatever was called before, a call of analyze_transcript returns the one
\* result fixed by the persona and the arguments: equal calls return equal
\* results.
C18_AnalyzeDeterministic ==
    [][ (call'.op = "analyze_transcript" /\ call' # call) =>
            ret' = Some(ReferenceAnalysis(role_id, interruption_threshold,
                                          call'.transcript, call'.duration))
      ]_vars

\* An analysis made in the middle of an utterance, some time after its
\* start, of a text that is not the buffered one.
C18_Witness ==
    /\ Analyzed /\ Speaking
    /\ current_response_text = TxtUmSo /\ call.transcript = TxtBlank
    /\ Val(current_response_start) < now
    /\ Result.filler_word_count = 0

\* C19: no step changes the persona; analyze_transcript and
\* get_interruption_message leave the buffer, the start and the history
\* alone; only update_response_tracking changes them.
C19_OnlyUpdateChangesSession ==
    [][ /\ config_vars' = config_vars
        /\ (call'.op \in { "analyze_transcript", "get_interruption_message" }) =>
              tracking_vars' = tracking_vars
        /\ tracking_vars' # tracking_vars => call'.op = "update_response_tracking"
      ]_vars

\* An analysis made after an utterance was recorded: the record is still
\* the last of the history and no utterance has been opened.
C19_Witness ==
    /\ Analyzed /\ call.transcript = TxtEmpty
    /\ ~Speaking /\ current_response_text = << >>
    /\ Len(response_history) = 1
    /\ LastRecord(response_history).text = TxtUmSo

\* C20: the result is fixed by the persona id, the threshold, the text and
\* the duration: the configured filler tolerance has no part in it, so
\* analyzers that differ only in it return the same results.
C20_ToleranceNotConsumed ==
    Analyzed =>
        Result = ReferenceAnalysis(role_id, interruption_threshold,
                                   call.transcript, call.duration)

\* A standard-policy analyzer configured with tolerance 0.3, on an utterance
\* with a third of its words fillers: not interrupted, as with tolerance 0.7.
C20_Witness ==
    /\ Analyzed /\ role_id = "mentor" /\ filler_word_tolerance = 3
    /\ call.transcript = TxtUmHelloWorld /\ call.duration = 0
    /\ ReportedRatioAbove(3) /\ DoesNotInterrupt

(***************************************************************************)
(* Filler counting and the filler cut-offs (checked under SpecAnalyze).    *)
(***************************************************************************)
\* The character c of a text is the lower-case letter f of a filler, in
\* either case.
SameLetter(c, f) == c = f \/ (c \in DOMAIN LowerOf /\ LowerOf[c] = f)

\* The filler stands at position k of the text as a whole word or phrase:
\* its letters in any case, with no word character right before or after.
WholeWordAt(filler, s, k) ==
    /\ k + Len(filler) - 1 <= Len(s)
    /\ \A j \in 1..Len(filler) : SameLetter(s[k + j - 1], filler[j])
    /\ ~WordAt(s, k - 1)
    /\ ~WordAt(s, k + Len(filler))

WholeWordOccurrences(filler, s) ==
    Cardinality({ k \in 1..Len(s) : WholeWordAt(filler, s, k) })

\* The occurrences of the fillers from the j-th on, summed.
RECURSIVE WholeWordTotal(_, _)
WholeWordTotal(s, j) ==
    IF j > Len(filler_words) THEN 0
    ELSE WholeWordOccurrences(filler_words[j], s) + WholeWordTotal(s, j + 1)

\* C21: filler_word_count is the sum over the filler list of the whole-word
\* (whole-phrase) occurrences in the text, letters taken in either case; a
\* filler inside a longer word is not counted.
C21_WholeWordFillers ==
    Analyzed => Result.filler_word_count = WholeWordTotal(call.transcript, 1)

\* "Dislike it, LIKE You Know, unlikely": LIKE and You Know are counted,
\* Dislike and unlikely are not.
C21_Witness ==
    /\ Analyzed /\ call.transcript = TxtDislike
    /\ Result.filler_word_count = 2

\* The filler cut-off of the analyzer's persona, in tenths.
PersonaCutoff ==
    IF role_id = "tough" THEN 3 ELSE IF role_id = "friendly" THEN 5 ELSE 4

\* C22: for an utterance that is neither rambling nor off-topic the analyzer
\* interrupts exactly when the filler ratio is above 0.3 (tough), 0.4
\* (standard policy) or 0.5 (friendly); a ratio equal to the cut-off, such
\* as 3 fillers in 10 words for tough, does not interrupt.
C22_StrictCutoffs ==
    (Analyzed /\ ~Result.is_rambling /\ ~Result.is_off_topic) =>
        /\ Result.should_interrupt <=> ReportedRatioAbove(PersonaCutoff)
        /\ (10 * Result.filler_word_count
               = PersonaCutoff * Max(split_len(call.transcript), 1))
              => DoesNotInterrupt

\* Three fillers in ten words, persona tough: no interruption.
C22_Witness ==
    /\ Analyzed /\ role_id = "tough" /\ call.transcript = FillerMix(3, 10)
    /\ call.duration = 30 /\ interruption_threshold = 60
    /\ Result.filler_word_count = 3
    /\ DoesNotInterrupt

\* C23: for every persona an utterance of at most 100 words, lasting at
\* most the interruption threshold, with a filler ratio of at most 0.3 and
\* no hedging phrase is not interrupted and gets the empty reason.
C23_QuietUtterance ==
    ( /\ Analyzed
      /\ split_len(call.transcript) <= 100
      /\ call.duration <= interruption_threshold
      /\ 10 * Result.filler_word_count <= 3 * Max(split_len(call.transcript), 1)
      /\ ~Result.is_off_topic ) =>
        /\ ~Result.should_interrupt
        /\ Result.interruption_reason = ""

\* A concise answer of 40 words that took 20 s, persona tough.
C23_Witness ==
    /\ Analyzed /\ role_id = "tough" /\ interruption_threshold = 60
    /\ call.transcript = Words(40) /\ call.duration = 20
    /\ ~Result.is_rambling /\ ~Result.should_interrupt

(***************************************************************************)
(* The configured threshold (checked under SpecAnalyze).                   *)
(***************************************************************************)
ThresholdSupplied == "interruptionThreshold" \in DOMAIN debater_role

\* C24 as stated: without a configured threshold the analyzer uses 60 s for
\* tough, 180 s for friendly and 120 s for the other personas.
C24_PersonaDefaultThreshold ==
    ~ThresholdSupplied =>
        interruption_threshold = IF role_id = "tough" THEN 60
                                 ELSE IF role_id = "friendly" THEN 180
                                 ELSE 120

\* C24, amended: without a configured threshold the analyzer uses 120 s
\* whatever the persona, in the field and in the rambling test; a
\* configured threshold is used as given.
C24_DefaultThresholdIs120 ==
    /\ ~ThresholdSupplied => interruption_threshold = 120
    /\ ThresholdSupplied =>
          interruption_threshold = debater_role["interruptionThreshold"]
    /\ (Analyzed /\ ~ThresholdSupplied) =>
          (Result.is_rambling <=>
              (split_len(call.transcript) > 100 \/ call.duration > 120))

\* Persona tough without a configured threshold: 90 s of speech is neither
\* rambling nor interrupted.
C24_Witness ==
    /\ Analyzed /\ role_id = "tough" /\ ~ThresholdSupplied
    /\ call.transcript = TxtHello /\ call.duration = 90
    /\ interruption_threshold = 120
    /\ ~Result.is_rambling /\ ~Result.should_interrupt

(***************************************************************************)
(* Results and records of a session that is also analyzed directly         *)
(* (checked under SpecMixed).                                              *)
(***************************************************************************)
FlagMatchesReason(analysis) ==
    analysis.should_interrupt <=> analysis.interruption_reason # ""

\* C25: in every result of analyze_transcript, returned directly or by a
\* finalizing update, and in the analysis of every record of the history,
\* should_interrupt is true exactly when the reason is not empty.
C25_FlagIffReason ==
    /\ (ret # None /\ call.op \in { "analyze_transcript", "update_response_tracking" })
          => FlagMatchesReason(Result)
    /\ \A i \in DOMAIN response_history :
          FlagMatchesReason(response_history[i].analysis)

\* A record that interrupts with a reason, and a later direct analysis that
\* does neither.
C25_Witness ==
    /\ Analyzed /\ ~Result.should_interrupt /\ Result.interruption_reason = ""
    /\ response_history # << >>
    /\ response_history[1].analysis.should_interrupt
    /\ response_history[1].analysis.interruption_reason # ""

(***************************************************************************)
(* Further properties of update_response_tracking (checked under Spec).    *)
(***************************************************************************)
\* C26: an update returns a result exactly when it appends a record; a
\* speaking update returns nothing and appends nothing, however long the
\* utterance has lasted; the result of a finalizing update is the analysis
\* of the last record, and its response_duration is that record's duration.
C26_ResultIffRecord ==
    [][ call'.op = "update_response_tracking" =>
          /\ Len(response_history') \in { Len(response_history),
                                          Len(response_history) + 1 }
          /\ ret' # None <=> Len(response_history') = Len(response_history) + 1
          /\ call'.is_speaking =>
                (ret' = None /\ response_history' = response_history)
          /\ ret' # None =>
                /\ Val(ret') = LastRecord(response_history').analysis
                /\ Val(ret').response_duration
                      = LastRecord(response_history').duration
      ]_vars

\* A speaking update that arrived when the utterance had already lasted
\* longer than the threshold: nothing returned.
C26_Witness ==
    /\ call.op = "update_response_tracking" /\ call.is_speaking
    /\ Speaking /\ now - Val(current_response_start) > interruption_threshold
    /\ current_response_text = TxtUmSo
    /\ ret = None

\* C27: the transcript argument of a finalizing update is ignored: from the
\* same session state and at the same clock readings, the update with any
\* other transcript leads to the same buffer, start, history and clock and
\* returns the same result.
C27_FinalTranscriptIgnored ==
    [][ (UpdateStep(FALSE) /\ Speaking) =>
          \A other \in SessionTexts : update_response_tracking(other, FALSE)
      ]_vars

\* An utterance "Um so" finalized by an update that carried "hello world":
\* the record and the result are those of "Um so".
C27_Witness ==
    /\ call.op = "update_response_tracking" /\ ~call.is_speaking
    /\ call.transcript = TxtHelloWorld
    /\ ret # None /\ Result.filler_word_count = 2
    /\ LastRecord(response_history).text = TxtUmSo
    /\ LastRecord(response_history).analysis = Result

(***************************************************************************)
(* Messages for the reasons an analysis produced, and the friendly         *)
(* allowance (checked under SpecAnalyze).                                  *)
(***************************************************************************)
\* The step fetches the message for the reason of the interrupting analysis
\* just made (test_analyzer, lines 197-198).
MessageForResult ==
    /\ Analyzed /\ Result.should_interrupt
    /\ call'.op = "get_interruption_message"
    /\ call'.reason = Result.interruption_reason

\* C28: the message fetched for the reason of an interrupting analysis of
\* the same analyzer is a line of its own for that reason, never the
\* persona's fallback line, for tough, friendly and the standard policy.
C28_ProducedReasonsHaveLines ==
    [][ MessageForResult =>
          /\ call'.reason # ""
          /\ call'.reason \in DedicatedReasons
          /\ ret' # None
          /\ Val(ret') \notin { FallbackLine, "" }
      ]_vars

\* Persona tough, message for the off-topic reason its analysis produces.
C28_Witness ==
    /\ call.op = "get_interruption_message"
    /\ role_id = "tough" /\ call.reason = "Going off-topic"
    /\ Val(ret) = "You're going off-topic. Let's stay focused on the debate question."

\* C29: for persona friendly with a positive threshold the interruption for
\* length fires exactly when duration > 1.5 x threshold, whatever the number
\* of words; an utterance of more than 100 words lasting at most 1.5 x the
\* threshold is reported rambling and is not interrupted for length.
C29_FriendlyLengthRule ==
    (Analyzed /\ role_id = "friendly" /\ interruption_threshold > 0) =>
        /\ Result.interruption_reason = "Response getting long"
              <=> 2 * call.duration > 3 * interruption_threshold
        /\ ( /\ split_len(call.transcript) > 100
             /\ 2 * call.duration <= 3 * interruption_threshold ) =>
              /\ Result.is_rambling
              /\ Result.interruption_reason # "Response getting long"

\* 101 words in 30 s, persona friendly with threshold 180: rambling, not
\* interrupted.
C29_Witness ==
    /\ Analyzed /\ role_id = "friendly" /\ interruption_threshold = 180
    /\ call.transcript = Words(101) /\ call.duration = 30
    /\ Result.is_rambling /\ ~Result.should_interrupt

(***************************************************************************)
(* Progress of the session (checked under SpecLive).                       *)
(***************************************************************************)
\* C30: with a driver that delivers a not-speaking update after the speaking
\* updates, an utterance in progress is eventually finalized: the session is
\* idle again (no start, empty buffer) and the history holds one record
\* more; the history starts empty and grows by one exactly on the steps from
\* speaking to idle, so its length is the number of such steps so far.
C30_UtterancesFinalized ==
    /\ response_history = << >>
    /\ Speaking ~> (~Speaking /\ current_response_text = << >>)
    /\ [][ Len(response_history')
              = Len(response_history) + (IF Speaking /\ ~Speaking' THEN 1 ELSE 0)
         ]_vars

\* An utterance started at time 0 and finalized three seconds later: the
\* session is idle and the history holds its record.
C30_Witness ==
    /\ call.op = "update_response_tracking" /\ ~call.is_speaking /\ ret # None
    /\ ~Speaking /\ current_response_text = << >>
    /\ Len(response_history) = 1
    /\ response_history[1].text = TxtUmSo
    /\ response_history[1].duration = 3

====
